---- MODULE Spec2Model ----
(***************************************************************************)
(* Model of lib/ansible/modules/cloud/cloudstack/cs_template.py.           *)
(*                                                                         *)
(* One invocation of main() is one action.  The state is the module's     *)
(* parameters, the templates the CloudStack control plane holds, and one  *)
(* record per finished invocation: the API calls it issued (in order),    *)
(* result['changed'], and whether it ended in fail_json.                  *)
(***************************************************************************)
EXTENDS Naturals, Sequences, FiniteSets

\* Bounds of the model.
MaxTemplates == 2      \* templates the control plane holds initially
MaxRuns == 2           \* consecutive invocations with the same parameters

Null == "null"         \* Python None / parameter not supplied
Absent == "absent"     \* key not present in an API call's arguments
Unset == "unset"       \* boolean parameter not supplied by the caller

TemplateName == "n1"   \* params['name'] (required)
OtherName == "n2"
Checksum == "c1"       \* the checksum the caller may supply
DefaultZone == "z0"    \* the first zone found
AllZones == "-1"
NoTags == "t0"         \* the tags a template has before any reconciliation

Names == {TemplateName, OtherName}
\* A template whose checksum key is missing compares like one with another checksum.
RemoteChecksums == {Checksum, "c2"}

\* A template as listTemplates returns it.
Template(id, name, checksum, tags) ==
    [id |-> id, name |-> name, checksum |-> checksum, tags |-> tags]

NoTemplate == Template(0, Null, Absent, Absent)

\* The response of an unpolled async call: a job, which has no 'tags' key.
JobResponse == Template(0, "job", Absent, Absent)

TemplateKinds == {<<n, c>> : n \in Names, c \in RemoteChecksums}

\* The sequences of templates of length n, ids 1..n, not yet tagged.
RemoteOfLen(n) ==
    {[i \in 1..n |-> Template(i, f[i][1], f[i][2], NoTags)] :
        f \in [1..n -> TemplateKinds]}

Remotes == UNION {RemoteOfLen(n) : n \in 0..MaxTemplates}

----------------------------------------------------------------------------
\* Parameters (argument_spec, lines 560-593) with the values that matter.

BaseParams ==
    [state |-> "present", name |-> TemplateName, url |-> Null, vm |-> Null,
     snapshot |-> Null, os_type |-> Null, format |-> Null, hypervisor |-> Null,
     checksum |-> Null, zone |-> Null, cross_zones |-> Unset,
     is_public |-> Unset, poll_async |-> TRUE, check_mode |-> FALSE,
     tags |-> Null]

\* zone and cross_zones as a caller may validly combine them.
ZoneChoices == {<<Null, Unset>>, <<"z1", Unset>>, <<Null, "true">>, <<Null, "false">>}

\* Parameters every path reads: checksum, zone, cross_zones, check mode.
CommonParams(state) ==
    {[BaseParams EXCEPT !.state = state, !.checksum = c, !.zone = z[1],
                        !.cross_zones = z[2], !.check_mode = cm] :
        c \in {Null, Checksum}, z \in ZoneChoices, cm \in BOOLEAN}

AbsentParams ==
    {[p EXCEPT !.poll_async = pa] : p \in CommonParams("absent"), pa \in BOOLEAN}

ExtractedParams ==
    {[p EXCEPT !.poll_async = pa, !.url = u] :
        p \in CommonParams("extracted"), pa \in BOOLEAN, u \in {Null, "u"}}

\* state=present with url (the register path).  A parameter that the path
\* taken never reads keeps its default: with format or hypervisor missing the
\* module fails before it reads anything else, and with os_type missing it
\* reads only what the lookup needs.
RegisterParams ==
    {[BaseParams EXCEPT !.url = "u", !.format = fh[1], !.hypervisor = fh[2]] :
        fh \in {<<Null, "KVM">>, <<"QCOW2", Null>>, <<Null, Null>>}}
    \cup {[p EXCEPT !.url = "u", !.format = "QCOW2", !.hypervisor = "KVM"] :
        p \in CommonParams("present")}
    \cup {[p EXCEPT !.url = "u", !.format = "QCOW2", !.hypervisor = "KVM",
                    !.os_type = "os1", !.is_public = pub, !.tags = t] :
        p \in CommonParams("present"), pub \in {Unset, "true", "false"},
        t \in {Null, "t1"}}

\* state=present with vm (the create path).  With os_type missing the path
\* reads, beyond the lookup's parameters, only tags.
CreateParams ==
    {[p EXCEPT !.vm = "vm1", !.tags = t] :
        p \in CommonParams("present"), t \in {Null, "t1"}}
    \cup {[p EXCEPT !.vm = "vm1", !.os_type = "os1", !.snapshot = s,
                    !.is_public = pub, !.poll_async = pa, !.tags = t] :
        p \in CommonParams("present"), s \in {Null, "s1"},
        pub \in {Unset, "true", "false"}, pa \in BOOLEAN, t \in {Null, "t1"}}

\* state=present with neither url nor vm.
NoSourceParams == {[BaseParams EXCEPT !.check_mode = cm] : cm \in BOOLEAN}

\* Combinations AnsibleModule rejects: url with vm, zone with cross_zones.
ExclusiveParams ==
    {[BaseParams EXCEPT !.state = s, !.url = "u", !.vm = "vm1"] :
        s \in {"present", "absent", "extracted"}}
    \cup {[BaseParams EXCEPT !.state = s, !.zone = "z1", !.cross_zones = x] :
        s \in {"present", "absent", "extracted"}, x \in {"true", "false"}}

ParamSets ==
    AbsentParams \cup ExtractedParams \cup RegisterParams \cup CreateParams
    \cup NoSourceParams \cup ExclusiveParams

VARIABLES params, remote, nextId, results

vars == <<params, remote, nextId, results>>

----------------------------------------------------------------------------
\* module.params.get(...) with the argument_spec defaults applied.

\* cross_zones=dict(type='bool', default=False)
cross_zones(p) == p.cross_zones = "true"

\* is_public=dict(type='bool', default=True)
is_public(p) == IF p.is_public = Unset THEN "true" ELSE p.is_public

\* get_zone(key='id'): the zone given, else the first zone found.
get_zone(p) == IF p.zone # Null THEN p.zone ELSE DefaultZone

----------------------------------------------------------------------------
\* API calls, as the log records them.  res is what the call returned.

Call(api) ==
    [api |-> api, zoneid |-> Absent, name |-> Absent, id |-> 0,
     ispublic |-> Absent, checksum |-> Absent, res |-> Absent]

MutatingApis == {"createTemplate", "registerTemplate", "extractTemplate", "deleteTemplate"}

\* The listTemplates answer of the control plane: the templates, in its
\* order, that pass the name filter when the call carries one.
ListTemplates(rem, call) ==
    SelectSeq(rem, LAMBDA t : call.name = Absent \/ t.name = call.name)

\* The control plane after deleteTemplate(id) has finished.
DeleteTemplate(rem, id) == SelectSeq(rem, LAMBDA t : t.id # id)

\* Slip: the lookup is never scoped to the zone.
ListArgsNoZoneScope(p) ==
    [Call("listTemplates") EXCEPT
        !.zoneid = Absent,
        !.name = IF p.checksum = Null THEN p.name ELSE Absent]

\* The arguments get_template builds for listTemplates.
ListArgs(p) ==
    [Call("listTemplates") EXCEPT
        !.zoneid = IF ~cross_zones(p) THEN get_zone(p) ELSE Absent,
        !.name = IF p.checksum = Null THEN p.name ELSE Absent]

\* The first template of a list whose checksum is the given one.
FirstWithChecksum(templates, checksum) ==
    LET hits == {i \in 1..Len(templates) : templates[i].checksum = checksum}
    IN IF hits = {} THEN NoTemplate
       ELSE templates[CHOOSE i \in hits : \A j \in hits : i <= j]

\* Slip: the first listed template is returned whatever its checksum.
get_templateIgnoringChecksum(p, rem) ==
    LET templates == ListTemplates(rem, ListArgs(p))
    IN IF Len(templates) > 0 THEN templates[1] ELSE NoTemplate

get_template(p, rem) ==
    LET templates == ListTemplates(rem, ListArgs(p))
    IN IF Len(templates) > 0
       THEN IF p.checksum = Null
            THEN templates[1]
            ELSE FirstWithChecksum(templates, p.checksum)
       ELSE NoTemplate

\* The listTemplates call as logged, with what get_template made of it.
Lookup(p, rem) ==
    [ListArgs(p) EXCEPT
        !.id = get_template(p, rem).id,
        !.res = IF get_template(p, rem) = NoTemplate THEN "none" ELSE "found"]

----------------------------------------------------------------------------
\* What the control plane answers during one invocation, beyond listTemplates:
\* whether the async job succeeds, whether listVolumes lists a ROOT volume,
\* whether a listed snapshot has the given name or id, and the checksum the
\* control plane computes for a template it was given none for.
Envs ==
    [jobOk : BOOLEAN, volumes : BOOLEAN, snapMatch : BOOLEAN,
     newChecksum : RemoteChecksums]

\* The answers a handler can come to read; the others stay at a fixed value.
JobEnvs == {e \in Envs : e.volumes /\ e.snapMatch /\ e.newChecksum = Checksum}

RegisterEnvs == {e \in Envs : e.jobOk /\ e.volumes /\ e.snapMatch}

CreateEnvs ==
    {e \in Envs : /\ ~e.volumes => e.snapMatch
                  /\ (~e.volumes \/ ~e.snapMatch) => (e.jobOk /\ e.newChecksum = Checksum)
                  /\ ~e.jobOk => e.newChecksum = Checksum}

\* What one invocation leaves: its calls, result['changed'], whether it
\* ended in fail_json, and the control plane's templates afterwards.
Out(calls, changed, failed, rem, nid) ==
    [calls |-> calls, changed |-> changed, failed |-> failed,
     remote |-> rem, nextId |-> nid]

PollJob == [Call("poll_job") EXCEPT !.res = "template"]

\* The control plane with template id's tags replaced.
SetTags(rem, id, tags) ==
    [i \in 1..Len(rem) |-> IF rem[i].id = id THEN [rem[i] EXCEPT !.tags = tags] ELSE rem[i]]

\* ensure_tags(resource, 'Template') of the helper library: acts only on a
\* resource that has a 'tags' key and only when the tags parameter is given;
\* reports a change when the tags differ and, outside check mode, makes the
\* template's tags the given ones.
ensure_tags(p, resource, rem) ==
    LET acts == resource.tags # Absent /\ p.tags # Null
        differ == acts /\ resource.tags # p.tags
    IN [calls |-> << [Call("ensure_tags") EXCEPT
                        !.id = resource.id,
                        !.res = IF ~acts THEN "noop"
                                ELSE IF differ THEN "changed" ELSE "same"] >>,
        changed |-> differ,
        remote |-> IF differ /\ ~p.check_mode
                   THEN SetTags(rem, resource.id, p.tags) ELSE rem]

\* The arguments _get_args contributes to createTemplate / registerTemplate.
GetArgs(api, p) ==
    [Call(api) EXCEPT !.name = p.name, !.ispublic = is_public(p)]

ListVolumes(env) ==
    [Call("listVolumes") EXCEPT !.res = IF env.volumes THEN "found" ELSE "none"]

ListSnapshots(env) ==
    [Call("listSnapshots") EXCEPT !.res = IF env.snapMatch THEN "match" ELSE "nomatch"]

----------------------------------------------------------------------------
\* create_template (lines 434-455)

\* Slip: the template just created is returned without ensure_tags.
CreateMissingUntagged(p, rem, nid, env) ==
    LET pre == <<Lookup(p, rem), ListVolumes(env)>>
               \o (IF p.snapshot # Null THEN <<ListSnapshots(env)>> ELSE <<>>)
        create == [GetArgs("createTemplate", p) EXCEPT
                     !.res = IF p.snapshot # Null THEN "snapshotid" ELSE "volumeid"]
        created == Template(nid, p.name, env.newChecksum, NoTags)
    IN IF ~env.volumes
       THEN Out(<<Lookup(p, rem), ListVolumes(env)>>, TRUE, TRUE, rem, nid)
       ELSE IF p.snapshot # Null /\ ~env.snapMatch
       THEN Out(pre, TRUE, TRUE, rem, nid)
       ELSE IF p.check_mode
       THEN Out(pre, TRUE, FALSE, rem, nid)
       ELSE IF p.poll_async /\ ~env.jobOk
       THEN Out(pre \o <<create, PollJob>>, TRUE, TRUE, rem, nid)
       ELSE Out(pre \o <<create>> \o (IF p.poll_async THEN <<PollJob>> ELSE <<>>),
                TRUE, FALSE,
                IF env.jobOk THEN Append(rem, created) ELSE rem,
                IF env.jobOk THEN nid + 1 ELSE nid)

\* The rest of create_template once the template is known to be missing
\* and _get_args has resolved os_type.
CreateMissing(p, rem, nid, env) ==
    LET pre == <<Lookup(p, rem), ListVolumes(env)>>
               \o (IF p.snapshot # Null THEN <<ListSnapshots(env)>> ELSE <<>>)
        create == [GetArgs("createTemplate", p) EXCEPT
                     !.res = IF p.snapshot # Null THEN "snapshotid" ELSE "volumeid"]
        created == Template(nid, p.name, env.newChecksum, NoTags)
        tagsNew == ensure_tags(p, created, Append(rem, created))
        tagsJob == ensure_tags(p, JobResponse, rem)
    IN IF ~env.volumes
       THEN \* get_root_volume: "Root volume for ... not found"
            Out(<<Lookup(p, rem), ListVolumes(env)>>, TRUE, TRUE, rem, nid)
       ELSE IF p.snapshot # Null /\ ~env.snapMatch
       THEN \* get_snapshot: "Snapshot ... not found"
            Out(pre, TRUE, TRUE, rem, nid)
       ELSE IF p.check_mode
       THEN Out(pre, TRUE, FALSE, rem, nid)
       ELSE IF p.poll_async
       THEN IF env.jobOk
            THEN Out(pre \o <<create, PollJob>> \o tagsNew.calls, TRUE, FALSE,
                     tagsNew.remote, nid + 1)
            ELSE Out(pre \o <<create, PollJob>>, TRUE, TRUE, rem, nid)
       ELSE Out(pre \o <<create>> \o tagsJob.calls, TRUE, FALSE,
                IF env.jobOk THEN Append(rem, created) ELSE rem,
                IF env.jobOk THEN nid + 1 ELSE nid)

\* Slip: the template is created whether or not the lookup found one.
create_templateUnconditional(p, rem, nid, env) ==
    IF p.os_type = Null
    THEN Out(<<Lookup(p, rem)>>, TRUE, TRUE, rem, nid)
    ELSE CreateMissing(p, rem, nid, env)

create_template(p, rem, nid, env) ==
    LET template == get_template(p, rem)
        tags == ensure_tags(p, template, rem)
    IN IF template = NoTemplate
       THEN IF p.os_type = Null
            THEN \* _get_args: "Missing required arguments: os_type"
                 Out(<<Lookup(p, rem)>>, TRUE, TRUE, rem, nid)
            ELSE CreateMissing(p, rem, nid, env)
       ELSE Out(<<Lookup(p, rem)>> \o tags.calls, tags.changed, FALSE, tags.remote, nid)

----------------------------------------------------------------------------
\* register_template (lines 457-489)

register_template(p, rem, nid, env) ==
    LET template == get_template(p, rem)
        register == [GetArgs("registerTemplate", p) EXCEPT
                       !.checksum = IF p.checksum = Null THEN Absent ELSE p.checksum,
                       !.zoneid = IF ~cross_zones(p) THEN get_zone(p) ELSE AllZones]
        registered == Template(nid, p.name,
                               IF p.checksum = Null THEN env.newChecksum ELSE p.checksum,
                               NoTags)
    IN IF p.format = Null \/ p.url = Null \/ p.hypervisor = Null
       THEN \* fail_on_missing_params
            Out(<<>>, FALSE, TRUE, rem, nid)
       ELSE IF template # NoTemplate
       THEN Out(<<Lookup(p, rem)>>, FALSE, FALSE, rem, nid)
       ELSE IF p.os_type = Null
       THEN Out(<<Lookup(p, rem)>>, TRUE, TRUE, rem, nid)
       ELSE IF p.check_mode
       THEN Out(<<Lookup(p, rem)>>, TRUE, FALSE, rem, nid)
       ELSE Out(<<Lookup(p, rem), register>>, TRUE, FALSE, Append(rem, registered), nid + 1)

----------------------------------------------------------------------------
\* extract_template (lines 518-537)

\* Slip: a missing template does not end the invocation.
extract_templateNoFail(p, rem, nid, env) ==
    LET template == get_template(p, rem)
        extract == [Call("extractTemplate") EXCEPT
                      !.id = template.id, !.zoneid = get_zone(p)]
    IN IF p.check_mode
       THEN Out(<<Lookup(p, rem)>>, TRUE, FALSE, rem, nid)
       ELSE IF p.poll_async
       THEN Out(<<Lookup(p, rem), extract, PollJob>>, TRUE, ~env.jobOk, rem, nid)
       ELSE Out(<<Lookup(p, rem), extract>>, TRUE, FALSE, rem, nid)

extract_template(p, rem, nid, env) ==
    LET template == get_template(p, rem)
        extract == [Call("extractTemplate") EXCEPT
                      !.id = template.id, !.zoneid = get_zone(p)]
    IN IF template = NoTemplate
       THEN \* "Failed: template not found"
            Out(<<Lookup(p, rem)>>, FALSE, TRUE, rem, nid)
       ELSE IF p.check_mode
       THEN Out(<<Lookup(p, rem)>>, TRUE, FALSE, rem, nid)
       ELSE IF p.poll_async
       THEN Out(<<Lookup(p, rem), extract, PollJob>>, TRUE, ~env.jobOk, rem, nid)
       ELSE Out(<<Lookup(p, rem), extract>>, TRUE, FALSE, rem, nid)

----------------------------------------------------------------------------
\* remove_template (lines 539-556)

\* Slip: the delete job is not polled.
remove_templateUnpolled(p, rem, nid, env) ==
    LET template == get_template(p, rem)
        delete == [Call("deleteTemplate") EXCEPT
                     !.id = template.id,
                     !.zoneid = IF ~cross_zones(p) THEN get_zone(p) ELSE Absent]
        after == IF env.jobOk THEN DeleteTemplate(rem, template.id) ELSE rem
    IN IF template = NoTemplate
       THEN Out(<<Lookup(p, rem)>>, FALSE, FALSE, rem, nid)
       ELSE IF p.check_mode
       THEN Out(<<Lookup(p, rem)>>, TRUE, FALSE, rem, nid)
       ELSE Out(<<Lookup(p, rem), delete>>, TRUE, FALSE, after, nid)

\* Slip: result['changed'] is not set on removal.
remove_templateUnchanged(p, rem, nid, env) ==
    LET template == get_template(p, rem)
        delete == [Call("deleteTemplate") EXCEPT
                     !.id = template.id,
                     !.zoneid = IF ~cross_zones(p) THEN get_zone(p) ELSE Absent]
        after == IF env.jobOk THEN DeleteTemplate(rem, template.id) ELSE rem
    IN IF template = NoTemplate
       THEN Out(<<Lookup(p, rem)>>, FALSE, FALSE, rem, nid)
       ELSE IF p.check_mode
       THEN Out(<<Lookup(p, rem)>>, FALSE, FALSE, rem, nid)
       ELSE IF p.poll_async
       THEN Out(<<Lookup(p, rem), delete, PollJob>>, FALSE, ~env.jobOk, after, nid)
       ELSE Out(<<Lookup(p, rem), delete>>, FALSE, FALSE, after, nid)

remove_template(p, rem, nid, env) ==
    LET template == get_template(p, rem)
        delete == [Call("deleteTemplate") EXCEPT
                     !.id = template.id,
                     !.zoneid = IF ~cross_zones(p) THEN get_zone(p) ELSE Absent]
        after == IF env.jobOk THEN DeleteTemplate(rem, template.id) ELSE rem
    IN IF template = NoTemplate
       THEN Out(<<Lookup(p, rem)>>, FALSE, FALSE, rem, nid)
       ELSE IF p.check_mode
       THEN Out(<<Lookup(p, rem)>>, TRUE, FALSE, rem, nid)
       ELSE IF p.poll_async
       THEN Out(<<Lookup(p, rem), delete, PollJob>>, TRUE, ~env.jobOk, after, nid)
       ELSE Out(<<Lookup(p, rem), delete>>, TRUE, FALSE, after, nid)

----------------------------------------------------------------------------
\* main (lines 559-624)

\* AnsibleModule(..., mutually_exclusive=(['url','vm'], ['zone','cross_zones']))
MutuallyExclusive(p) ==
    \/ p.url # Null /\ p.vm # Null
    \/ p.zone # Null /\ p.cross_zones # Unset

\* Slip: state=extracted handled by the state=absent branch.
DispatchExtractedAsAbsent(p) ==
    IF MutuallyExclusive(p) THEN "exclusive"
    ELSE IF p.state \in {"absent", "extracted"} THEN "remove"
    ELSE IF p.url # Null THEN "register"
    ELSE IF p.vm # Null THEN "create"
    ELSE "nosource"

\* The branch main takes.
Dispatch(p) ==
    IF MutuallyExclusive(p) THEN "exclusive"
    ELSE IF p.state = "absent" THEN "remove"
    ELSE IF p.state = "extracted" THEN "extract"
    ELSE IF p.url # Null THEN "register"
    ELSE IF p.vm # Null THEN "create"
    ELSE "nosource"

\* An invocation ends: its record is kept and the control plane moves on.
Finish(out) ==
    /\ results' = Append(results,
                         [calls |-> out.calls, changed |-> out.changed,
                          failed |-> out.failed, seen |-> remote])
    /\ remote' = out.remote
    /\ nextId' = out.nextId
    /\ UNCHANGED params

Init ==
    /\ params \in ParamSets
    /\ remote \in Remotes
    /\ nextId = Len(remote) + 1
    /\ results = <<>>

\* AnsibleModule rejects the parameters: no API call is made.
ModuleRejects ==
    /\ Len(results) < MaxRuns
    /\ Dispatch(params) = "exclusive"
    /\ Finish(Out(<<>>, FALSE, TRUE, remote, nextId))

\* state=present with neither url nor vm (line 620).
MainNoSource ==
    /\ Len(results) < MaxRuns
    /\ Dispatch(params) = "nosource"
    /\ Finish(Out(<<>>, FALSE, TRUE, remote, nextId))

MainRemove ==
    /\ Len(results) < MaxRuns
    /\ Dispatch(params) = "remove"
    /\ \E env \in JobEnvs : Finish(remove_template(params, remote, nextId, env))

MainExtract ==
    /\ Len(results) < MaxRuns
    /\ Dispatch(params) = "extract"
    /\ \E env \in JobEnvs : Finish(extract_template(params, remote, nextId, env))

MainRegister ==
    /\ Len(results) < MaxRuns
    /\ Dispatch(params) = "register"
    /\ \E env \in RegisterEnvs : Finish(register_template(params, remote, nextId, env))

MainCreate ==
    /\ Len(results) < MaxRuns
    /\ Dispatch(params) = "create"
    /\ \E env \in CreateEnvs : Finish(create_template(params, remote, nextId, env))

Next ==
    \/ ModuleRejects
    \/ MainNoSource
    \/ MainRemove
    \/ MainExtract
    \/ MainRegister
    \/ MainCreate

Spec == Init /\ [][Next]_vars

----------------------------------------------------------------------------
\* Reading the record of an invocation.

Runs == 1..Len(results)

\* The positions of an invocation's mutating calls.
Mutations(r) == {i \in 1..Len(r.calls) : r.calls[i].api \in MutatingApis}

\* The positions of an invocation's calls of the given API.
CallsOf(r, api) == {i \in 1..Len(r.calls) : r.calls[i].api = api}

\* What the invocation's lookup returned ("found", "none"), if it looked up.
LookupRes(r) == IF Len(r.calls) > 0 THEN r.calls[1].res ELSE Absent

\* ensure_tags reported a change of tags.
TagChange(r) == \E i \in CallsOf(r, "ensure_tags") : r.calls[i].res = "changed"

\* The least element of a non-empty set of positions.
Least(hits) == CHOOSE i \in hits : \A j \in hits : i <= j

\* The id of the first template of seq with the given checksum, 0 when none.
FirstIdWithChecksum(seq, checksum) ==
    LET hits == {i \in 1..Len(seq) : seq[i].checksum = checksum}
    IN IF hits = {} THEN 0 ELSE seq[Least(hits)].id

\* The id of the first template of seq with the given name, 0 when none.
FirstIdWithName(seq, name) ==
    LET hits == {i \in 1..Len(seq) : seq[i].name = name}
    IN IF hits = {} THEN 0 ELSE seq[Least(hits)].id

----------------------------------------------------------------------------
\* C1: in every invocation at most one mutating API call is issued, and it
\* is deleteTemplate only for state=absent, extractTemplate only for
\* state=extracted, registerTemplate only for state=present with url set,
\* createTemplate only for state=present with vm set and url unset.
C1_OneOutcome ==
    \A k \in Runs :
        LET r == results[k]
        IN /\ Cardinality(Mutations(r)) <= 1
           /\ \A i \in Mutations(r) :
                LET api == r.calls[i].api
                IN /\ api = "deleteTemplate" => params.state = "absent"
                   /\ api = "extractTemplate" => params.state = "extracted"
                   /\ api = "registerTemplate" =>
                        params.state = "present" /\ params.url # Null
                   /\ api = "createTemplate" =>
                        params.state = "present" /\ params.vm # Null /\ params.url = Null

\* An invocation that issued createTemplate.
C1_Witness ==
    \E k \in Runs : CallsOf(results[k], "createTemplate") # {}

----------------------------------------------------------------------------
\* The lookup found the observed state to diverge from the desired one.
Diverges(r) ==
    \/ params.state \in {"absent", "extracted"} /\ LookupRes(r) = "found"
    \/ params.state = "present" /\ LookupRes(r) = "none"

----------------------------------------------------------------------------
\* The parameters pass the checks made before any API call: the mutually
\* exclusive pairs, url or vm for state=present, format and hypervisor for
\* a registration.
PassesValidation ==
    /\ ~(params.url # Null /\ params.vm # Null)
    /\ ~(params.zone # Null /\ params.cross_zones # Unset)
    /\ params.state = "present" => (params.url # Null \/ params.vm # Null)
    /\ (params.state = "present" /\ params.url # Null) =>
            (params.format # Null /\ params.hypervisor # Null)

\* What C3 says of the calls an invocation does issue: none precedes the
\* lookup, no create/register when state=present and the lookup found a
\* template, no delete when state=absent and the lookup found none.
OnlyOnDivergence(r) ==
    /\ \A i \in Mutations(r) : i > 1 /\ r.calls[1].api = "listTemplates"
    /\ (params.state = "present" /\ LookupRes(r) = "found") =>
            (CallsOf(r, "createTemplate") = {} /\ CallsOf(r, "registerTemplate") = {})
    /\ (params.state = "absent" /\ LookupRes(r) = "none") =>
            CallsOf(r, "deleteTemplate") = {}

\* C3 as stated: every invocation first looks up the template with a
\* listTemplates call, and mutating calls are issued only on divergence.
\* (Read over the invocations whose parameters AnsibleModule accepts, those
\* that reach main's own code.)
C3_EveryInvocationLooksUp ==
    \A k \in Runs :
        ~MutuallyExclusive(params) =>
            /\ Len(results[k].calls) > 0
            /\ results[k].calls[1].api = "listTemplates"
            /\ OnlyOnDivergence(results[k])

\* C3 amended: every invocation whose parameters pass validation first looks
\* up the template with a listTemplates call (an invocation that fails
\* validation issues no call at all), and mutating calls are issued only on
\* divergence, never before the lookup.
C3_ValidInvocationLooksUp ==
    \A k \in Runs :
        /\ PassesValidation =>
              (Len(results[k].calls) > 0 /\ results[k].calls[1].api = "listTemplates")
        /\ ~PassesValidation => results[k].calls = <<>>
        /\ OnlyOnDivergence(results[k])

\* state=present, the lookup found the template, nothing was created.
C3_Witness ==
    \E k \in Runs :
        /\ params.state = "present"
        /\ params.vm # Null
        /\ LookupRes(results[k]) = "found"
        /\ Mutations(results[k]) = {}

----------------------------------------------------------------------------
\* Invocation k ran to completion outside check mode, with polling, and
\* ended successfully.
CompletedRun(k) ==
    /\ ~results[k].failed
    /\ ~params.check_mode
    /\ params.poll_async

\* The repeated invocation's lookup observes what the first one left: a
\* template for state=present, none for state=absent.  (Templates of the
\* same name or checksum may coexist, and createTemplate is sent no
\* checksum, so the control plane alone does not guarantee this.)
ObservesFirstRun(r) ==
    /\ params.state = "present" => LookupRes(r) = "found"
    /\ params.state = "absent" => LookupRes(r) = "none"

----------------------------------------------------------------------------
\* The invocation ended in fail_json without any mutating call.
FailedClean(r) == r.failed /\ Mutations(r) = {}

\* C5: each of these ends the invocation in a module failure with no
\* mutating call: state=present with neither url nor vm; registering with
\* format, url or hypervisor missing; creating (the lookup found no
\* template) with os_type unresolved; listVolumes listing no ROOT volume;
\* a snapshot parameter that no listed snapshot matches; state=extracted
\* with the lookup returning no template.
C5_FailuresIssueNoMutation ==
    \A k \in Runs :
        LET r == results[k]
        IN ~MutuallyExclusive(params) =>
            /\ (params.state = "present" /\ params.url = Null /\ params.vm = Null)
                    => FailedClean(r)
            /\ (params.state = "present" /\ params.url # Null
                    /\ (params.format = Null \/ params.hypervisor = Null))
                    => FailedClean(r)
            /\ (params.state = "present" /\ params.vm # Null
                    /\ params.os_type = Null /\ LookupRes(r) = "none")
                    => FailedClean(r)
            /\ (\E i \in CallsOf(r, "listVolumes") : r.calls[i].res = "none")
                    => FailedClean(r)
            /\ (params.snapshot # Null
                    /\ \E i \in CallsOf(r, "listSnapshots") : r.calls[i].res = "nomatch")
                    => FailedClean(r)
            /\ (params.state = "extracted" /\ LookupRes(r) = "none")
                    => FailedClean(r)

\* The snapshot given matched no listed snapshot and the invocation failed.
C5_Witness ==
    \E k \in Runs :
        /\ params.snapshot # Null
        /\ \E i \in CallsOf(results[k], "listSnapshots") :
                results[k].calls[i].res = "nomatch"
        /\ results[k].failed

----------------------------------------------------------------------------
\* C6: with checksum set the listTemplates call carries no name filter and
\* the lookup returns the first template held whose checksum is the given
\* one, none when there is no such template; with checksum not set the call
\* is filtered by name and the lookup returns the first template of that
\* name.
C6_SearchByChecksum ==
    \A k \in Runs :
        LET r == results[k]
        IN Len(r.calls) > 0 =>
            IF params.checksum # Null
            THEN /\ r.calls[1].name = Absent
                 /\ r.calls[1].id =
                        FirstIdWithChecksum(r.seen, params.checksum)
            ELSE /\ r.calls[1].name = params.name
                 /\ r.calls[1].id = FirstIdWithName(r.seen, params.name)

\* checksum is set, the first template held has the given name but another
\* checksum, and the lookup returned none.
C6_Witness ==
    \E k \in Runs :
        /\ params.checksum # Null
        /\ Len(results[k].seen) > 0
        /\ results[k].seen[1].name = params.name
        /\ results[k].seen[1].checksum # params.checksum
        /\ LookupRes(results[k]) = "none"

----------------------------------------------------------------------------
AsyncApis == {"createTemplate", "extractTemplate", "deleteTemplate"}

\* C7: with poll_async true and outside check mode, every createTemplate,
\* extractTemplate and deleteTemplate call is directly followed by poll_job,
\* and an invocation that reports success has seen the job finish (the
\* deleted template is gone, the created one is held); with poll_async
\* false poll_job is never called.
C7_PollsAsyncJobs ==
    \A k \in Runs :
        LET r == results[k]
        IN /\ (params.poll_async /\ ~params.check_mode) =>
                \A i \in 1..Len(r.calls) :
                    r.calls[i].api \in AsyncApis =>
                        (i < Len(r.calls) /\ r.calls[i + 1].api = "poll_job")
           /\ (params.poll_async /\ ~r.failed /\ k = Len(results)) =>
                /\ \A i \in CallsOf(r, "deleteTemplate") :
                        \A j \in 1..Len(remote) : remote[j].id # r.calls[i].id
                /\ CallsOf(r, "createTemplate") # {} =>
                        \E j \in 1..Len(remote) :
                            /\ remote[j].name = params.name
                            /\ \A h \in 1..Len(r.seen) : r.seen[h].id # remote[j].id
           /\ ~params.poll_async => CallsOf(r, "poll_job") = {}

\* A deleteTemplate call was polled and the invocation succeeded.
C7_Witness ==
    \E k \in Runs :
        /\ params.poll_async
        /\ ~results[k].failed
        /\ \E i \in CallsOf(results[k], "deleteTemplate") :
                results[k].calls[i + 1].api = "poll_job"

----------------------------------------------------------------------------
\* C8: whenever a state=present invocation given the tags parameter ends
\* successfully with a template (found by the lookup, created from a VM, or
\* registered from a URL), ensure_tags has been applied after any
\* create/register call.
C8_TagsSyncedOnBothPaths ==
    \A k \in Runs :
        LET r == results[k]
        IN (/\ params.state = "present"
            /\ params.tags # Null
            /\ ~r.failed
            /\ (LookupRes(r) = "found" \/ Mutations(r) # {}))
           => \E i \in CallsOf(r, "ensure_tags") : \A j \in Mutations(r) : j < i

----------------------------------------------------------------------------
\* C9: when is_public is not supplied, a template created or registered is
\* sent to the API with ispublic=false.
C9_IsPublicDefaultsToFalse ==
    \A k \in Runs :
        \A i \in CallsOf(results[k], "createTemplate")
                    \cup CallsOf(results[k], "registerTemplate") :
            params.is_public = Unset => results[k].calls[i].ispublic = "false"

----------------------------------------------------------------------------
ZoneScopedApis == {"listTemplates", "registerTemplate", "deleteTemplate"}

\* C10: for state present and absent, with cross_zones true the listTemplates
\* and deleteTemplate calls carry no zoneid and registerTemplate is sent
\* zoneid=-1; with cross_zones false the listTemplates, registerTemplate and
\* deleteTemplate calls all carry the same zone id, that of the zone given
\* or of the first zone; and an invocation given both zone and cross_zones
\* fails without any call.
C10_CrossZonesScoping ==
    \A k \in Runs :
        LET r == results[k]
            scoped == {i \in 1..Len(r.calls) : r.calls[i].api \in ZoneScopedApis}
        IN /\ (params.state \in {"present", "absent"} /\ params.cross_zones = "true") =>
                \A i \in scoped :
                    r.calls[i].zoneid =
                        IF r.calls[i].api = "registerTemplate" THEN AllZones ELSE Absent
           /\ (params.state \in {"present", "absent"} /\ params.cross_zones # "true") =>
                /\ \A i \in scoped : r.calls[i].zoneid \notin {Absent, AllZones}
                /\ \A i, j \in scoped : r.calls[i].zoneid = r.calls[j].zoneid
                /\ \A i \in scoped :
                        params.zone # Null => r.calls[i].zoneid = params.zone
           /\ (params.zone # Null /\ params.cross_zones # Unset) =>
                (r.failed /\ r.calls = <<>>)

\* With cross_zones true a template was looked up and deleted without zoneid.
C10_Witness ==
    \E k \in Runs :
        /\ params.cross_zones = "true"
        /\ results[k].calls[1].zoneid = Absent
        /\ \E i \in CallsOf(results[k], "deleteTemplate") :
                results[k].calls[i].zoneid = Absent

====
